---- MODULE Spec2Model ----
(***************************************************************************)
(* Sparse graph-edge construction of deepqmc (jax/wf/paulinet/graph.py):   *)
(* the pruning kernel, the capacity-adaptive GraphEdgesBuilder and the     *)
(* EdgeFactory that owns one builder per edge type.                        *)
(*                                                                         *)
(* Arrays are records [shape, data]: shape is the numpy shape tuple, data  *)
(* the array flattened over its batch axes, one sequence of points per     *)
(* batch element. Particle indices are 0-based as in the source; TLA+      *)
(* sequences are 1-based, so index k is held at position k + 1.            *)
(***************************************************************************)
EXTENDS Integers, Sequences, FiniteSets, TLC

\* ------------------------------------------------------------------ bounds

\* Number of lattice points a particle may sit on.
NumPoints == 3

\* Largest send_offset / rec_offset of a direct builder call.
MaxOffset == 1

\* (0,0,0)-(1,0,0) is inside the default cutoff, (1,0,0)-(11,0,0) lies exactly
\* on it, (0,0,0)-(11,0,0) outside; (6,0,8) is at distance exactly 10 of the
\* origin and sqrt(89) of its neighbours.
PointPool ==
  << <<0, 0, 0>>, <<1, 0, 0>>, <<11, 0, 0>>, <<6, 0, 8>>, <<0, 12, 0>> >>

Points ==
  {PointPool[i] : i \in 1..(IF NumPoints < Len(PointPool) THEN NumPoints ELSE Len(PointPool))}

\* Batch-dimension prefixes of the position arrays: unbatched, an empty
\* batch and a batch of two walkers.
BatchShapes == {<<>>, <<0>>, <<2>>}

\* Molecules: the nuclei of the spec's scenario with (n_up, n_down) electrons.
MolCoords == << <<0, 0, 0>>, <<1, 0, 0>> >>

SpinCounts == {<<1, 1>>, <<0, 2>>, <<2, 0>>, <<1, 2>>}

\* Electron counts for which rs is also given with batch axes; larger
\* molecules are called with a single walker or an empty batch.
BatchedSpinCounts == {<<1, 1>>, <<0, 2>>, <<2, 0>>}

\* edge_types lists an EdgeFactory is constructed with.
EdgeTypeLists ==
  {<<"nn">>, <<"ne">>, <<"en">>, <<"same">>, <<"anti">>, <<"ne", "same">>}

\* ---------------------------------------------------------------- helpers

Last(s) == s[Len(s)]

RECURSIVE Prod(_)
Prod(s) == IF s = <<>> THEN 1 ELSE s[1] * Prod(Tail(s))

\* A sequence given by a rule [i \in 1..n |-> e], written out element by element.
AsSeq(f) == f \o <<>>

RECURSIVE MaxOf(_)
MaxOf(s) ==
  IF Len(s) = 1 THEN s[1]
  ELSE LET m == MaxOf(Tail(s)) IN IF s[1] > m THEN s[1] ELSE m

\* shape[:-2]
BatchDims(shape) == SubSeq(shape, 1, Len(shape) - 2)

\* shape[-2]
NPart(shape) == shape[Len(shape) - 1]

\* --------------------------------------------------------- pruning kernel

DEFAULT_EDGE_KWARGS == [cutoff |-> 10, occupancy_limit |-> 2]

\* idx[i][j] = j, the receiver index of candidate (i, j).
all_graph_edges(pos1, pos2) ==
  AsSeq([i \in 1..Len(pos1) |-> AsSeq([j \in 1..Len(pos2) |-> j - 1])])

\* Entries with idx[i][j] = i become idx.shape[0].
mask_self_edges_off(idx) == idx

mask_self_edges(idx) ==
  AsSeq([i \in 1..Len(idx) |->
     AsSeq([j \in 1..Len(idx[i]) |-> IF idx[i][j] = i - 1 THEN Len(idx) ELSE idx[i][j]])])

\* ((receiver - sender) ** 2).sum(); the square root is taken in less_than_cutoff.
distance2(sender, receiver) ==
    (receiver[1] - sender[1]) * (receiver[1] - sender[1])
  + (receiver[2] - sender[2]) * (receiver[2] - sender[2])
  + (receiver[3] - sender[3]) * (receiver[3] - sender[3])

\* sqrt(d2) < cutoff: for cutoff > 0 this is d2 < cutoff^2.
less_than_cutoff_le(d2, cutoff) == d2 <= cutoff * cutoff

less_than_cutoff(d2, cutoff) == d2 < cutoff * cutoff

\* pos[k] of a jax array: an out-of-range index is clamped.
gather(pos, k) ==
  pos[(IF k < 0 THEN 0 ELSE IF k > Len(pos) - 1 THEN Len(pos) - 1 ELSE k) + 1]

\* mask = (distances < cutoff) & (receiver_idx < N_receiver)
keep_mask(d2, cutoff, receiver_idx, N_receiver) ==
  less_than_cutoff(d2, cutoff) /\ receiver_idx < N_receiver

\* (mask_val - offset) * ones(occupancy_limit + 1)
out_fill_nooffset(mask_val, offset, occupancy_limit) ==
  AsSeq([p \in 1..(occupancy_limit + 1) |-> mask_val])

out_fill(mask_val, offset, occupancy_limit) ==
  AsSeq([p \in 1..(occupancy_limit + 1) |-> mask_val - offset])

\* index = where(mask, cumsum - 1, occupancy_limit)
scatter_index(mask, cumsum, occupancy_limit) ==
  AsSeq([c \in 1..Len(mask) |-> IF mask[c] THEN cumsum[c] - 1 ELSE occupancy_limit])

\* buf.at[index].set(vals): updates applied in order, an index outside the
\* buffer is dropped. Several candidates may write the discard slot; which
\* one wins is not observable since that slot is cut off.
RECURSIVE at_set(_, _, _, _)
at_set(buf, index, vals, c) ==
  IF c > Len(index) THEN buf
  ELSE at_set(IF index[c] >= 0 /\ index[c] < Len(buf)
                THEN [buf EXCEPT ![index[c] + 1] = vals[c]]
                ELSE buf,
              index, vals, c + 1)

\* Lines 55-72: the two buffers of occupancy_limit + 1 slots, the scatter,
\* the cut to occupancy_limit slots and the offsets.
prune_scatter(sender_idx, receiver_idx, mask, cumsum, occupancy_limit, send_offset, rec_offset, send_mask_val, rec_mask_val) ==
  [senders   |->
     SubSeq(at_set(out_fill(send_mask_val, send_offset, occupancy_limit),
                   scatter_index(mask, cumsum, occupancy_limit), sender_idx, 1),
            1, occupancy_limit),
   receivers |->
     SubSeq(at_set(out_fill(rec_mask_val, rec_offset, occupancy_limit),
                   scatter_index(mask, cumsum, occupancy_limit), receiver_idx, 1),
            1, occupancy_limit),
   occupancy |-> IF cumsum = <<>> THEN 0 ELSE Last(cumsum)]

add_offset(e, send_offset, rec_offset) ==
  [senders   |-> AsSeq([p \in 1..Len(e.senders) |-> e.senders[p] + send_offset]),
   receivers |-> AsSeq([p \in 1..Len(e.receivers) |-> e.receivers[p] + rec_offset]),
   occupancy |-> e.occupancy]

\* Lines 51-53: the keep mask and its running count.
prune_masked(sender_idx, receiver_idx, mask, occupancy_limit, send_offset, rec_offset, send_mask_val, rec_mask_val) ==
  add_offset(
    prune_scatter(sender_idx, receiver_idx, mask,
                  AsSeq([c \in 1..Len(mask) |-> Cardinality({c2 \in 1..c : mask[c2]})]),
                  occupancy_limit, send_offset, rec_offset, send_mask_val, rec_mask_val),
    send_offset, rec_offset)

\* Lines 49-51: the distance of every candidate and the keep mask.
prune_candidates(pos_sender, pos_receiver, cutoff, sender_idx, receiver_idx, occupancy_limit, send_offset, rec_offset, send_mask_val, rec_mask_val) ==
  prune_masked(
    sender_idx, receiver_idx,
    AsSeq([c \in 1..Len(sender_idx) |->
             keep_mask(distance2(gather(pos_sender, sender_idx[c]),
                                 gather(pos_receiver, receiver_idx[c])),
                       cutoff, receiver_idx[c], Len(pos_receiver))]),
    occupancy_limit, send_offset, rec_offset, send_mask_val, rec_mask_val)

\* Lines 44-48: the candidates in row-major order, sender by sender.
prune_graph_edges(pos_sender, pos_receiver, cutoff, idx, occupancy_limit, send_offset, rec_offset, send_mask_val, rec_mask_val) ==
  prune_candidates(
    pos_sender, pos_receiver, cutoff,
    AsSeq([c \in 1..(Len(pos_sender) * Len(pos_receiver)) |->
             (c - 1) \div Len(pos_receiver)]),
    AsSeq([c \in 1..(Len(pos_sender) * Len(pos_receiver)) |->
             idx[((c - 1) \div Len(pos_receiver)) + 1][((c - 1) % Len(pos_receiver)) + 1]]),
    occupancy_limit, send_offset, rec_offset, send_mask_val, rec_mask_val)

compute_graph_edges(pos1, pos2, cutoff, occupancy_limit, mask_self, send_offset, rec_offset, send_mask_val, rec_mask_val) ==
  prune_graph_edges(pos1, pos2, cutoff,
                    IF mask_self THEN mask_self_edges(all_graph_edges(pos1, pos2))
                                 ELSE all_graph_edges(pos1, pos2),
                    occupancy_limit, send_offset, rec_offset, send_mask_val, rec_mask_val)

\* ------------------------------------------------------ GraphEdgesBuilder

\* GraphEdgesBuilder.__init__
GraphEdgesBuilder(cutoff, occupancy_limit, mask_self, send_mask_val, rec_mask_val) ==
  [cutoff |-> cutoff, occupancy_limit |-> occupancy_limit, mask_self |-> mask_self,
   send_mask_val |-> send_mask_val, rec_mask_val |-> rec_mask_val]

NoEdges == [dims |-> <<>>, senders |-> <<>>, receivers |-> <<>>]

\* An exception leaves the call: nothing is returned, the limit stays.
Raise(self, err, runs) ==
  [status |-> err, edges |-> NoEdges, occupancy_limit |-> self.occupancy_limit,
   runs |-> runs, occupancy |-> <<>>]

\* The zero-particle branch: mask_val * ones(occupancy_limit), tiled over the batch.
tiled(v, occupancy_limit, batch_dims) ==
  AsSeq([e \in 1..Prod(batch_dims) |-> AsSeq([p \in 1..occupancy_limit |-> v])])

degenerate_edges_unit(self, batch_dims) ==
  [dims      |-> batch_dims,
   senders   |-> tiled(1, self.occupancy_limit, batch_dims),
   receivers |-> tiled(1, self.occupancy_limit, batch_dims)]

degenerate_edges(self, batch_dims) ==
  [dims      |-> batch_dims,
   senders   |-> tiled(self.send_mask_val, self.occupancy_limit, batch_dims),
   receivers |-> tiled(self.rec_mask_val, self.occupancy_limit, batch_dims)]

\* The vmapped kernel over the flattened batch.
compute_edges_fn(self, _pos1, _pos2, occupancy_limit, send_offset, rec_offset) ==
  AsSeq([e \in 1..Len(_pos1) |->
     compute_graph_edges(_pos1[e], _pos2[e], self.cutoff, occupancy_limit,
                         self.mask_self, send_offset, rec_offset,
                         self.send_mask_val, self.rec_mask_val)])

\* if max_occupancy > self.occupancy_limit
overflows_never(max_occupancy, occupancy_limit) == FALSE

overflows_always(max_occupancy, occupancy_limit) == TRUE

overflows(max_occupancy, occupancy_limit) == max_occupancy > occupancy_limit

\* self.occupancy_limit = max_occupancy
grown_limit_first(max_occupancy, occupancy) == occupancy[1]

grown_limit(max_occupancy, occupancy) == max_occupancy

\* The edges the call returns after a growth: the kernel re-run over the batch.
edges_after_growth_stale(first, rerun) == first

edges_after_growth(first, rerun) == rerun

\* del edges.data['occupancy'], reshape to the batch dimensions.
strip_and_reshape(edges, batch_dims) ==
  [dims      |-> batch_dims,
   senders   |-> AsSeq([e \in 1..Len(edges) |-> edges[e].senders]),
   receivers |-> AsSeq([e \in 1..Len(edges) |-> edges[e].receivers])]

Returns(edges, occupancy_limit, runs, occupancy) ==
  [status |-> "ok", edges |-> edges, occupancy_limit |-> occupancy_limit,
   runs |-> runs, occupancy |-> occupancy]

\* Lines 164-169: the growth of the limit, the re-run and what is returned.
call_grow(self, pos1, pos2, send_offset, rec_offset, first, occupancy, max_occupancy) ==
  IF overflows(max_occupancy, self.occupancy_limit)
    THEN Returns(
           strip_and_reshape(
             edges_after_growth(
               first,
               compute_edges_fn(self, pos1.data, pos2.data,
                                grown_limit(max_occupancy, occupancy),
                                send_offset, rec_offset)),
             BatchDims(pos1.shape)),
           grown_limit(max_occupancy, occupancy), 2, occupancy)
    ELSE Returns(strip_and_reshape(first, BatchDims(pos1.shape)),
                 self.occupancy_limit, 1, occupancy)

\* Line 163: jnp.max over the occupancies; a zero-size array has no maximum.
call_max(self, pos1, pos2, send_offset, rec_offset, first, occupancy) ==
  IF occupancy = <<>> THEN Raise(self, "ValueError", 1)
  ELSE call_grow(self, pos1, pos2, send_offset, rec_offset, first, occupancy,
                 MaxOf(occupancy))

\* Lines 145-163: the first run of the kernel, with the limit as it stands.
call_first(self, pos1, pos2, send_offset, rec_offset, first) ==
  call_max(self, pos1, pos2, send_offset, rec_offset, first,
           AsSeq([e \in 1..Len(first) |-> first[e].occupancy]))

\* GraphEdgesBuilder.__call__: the result record holds what the call returned
\* (status, edges), the builder's limit when the call ends, the number of
\* kernel runs over the batch and the occupancies the first run observed.
GraphEdgesBuilder_call(self, pos1, pos2, send_offset, rec_offset) ==
  IF ~(Last(pos1.shape) = 3 /\ Last(pos2.shape) = 3) THEN Raise(self, "AssertionError", 0)
  ELSE IF ~(Len(pos1.shape) > 1) THEN Raise(self, "AssertionError", 0)
  ELSE IF BatchDims(pos1.shape) # BatchDims(pos2.shape)
    THEN Raise(self, "AssertionError", 0)
  \* pos2.shape[-2] of a one-axis pos2
  ELSE IF self.mask_self /\ Len(pos2.shape) < 2 THEN Raise(self, "IndexError", 0)
  ELSE IF self.mask_self /\ NPart(pos1.shape) # NPart(pos2.shape)
    THEN Raise(self, "AssertionError", 0)
  ELSE IF NPart(pos1.shape) # 0 /\ Len(pos2.shape) < 2 THEN Raise(self, "IndexError", 0)
  ELSE IF NPart(pos1.shape) = 0 \/ NPart(pos2.shape) = 0
    THEN Returns(degenerate_edges(self, BatchDims(pos1.shape)),
                 self.occupancy_limit, 0, <<>>)
  ELSE call_first(self, pos1, pos2, send_offset, rec_offset,
                  compute_edges_fn(self, pos1.data, pos2.data, self.occupancy_limit,
                                   send_offset, rec_offset))

\* ------------------------------------------------------------ EdgeFactory

\* The kwargs_by_edge_type an EdgeFactory may be given: none, or these
\* options for every requested edge type.
TightKwargs == [cutoff |-> 2, occupancy_limit |-> 1]

fix_kwargs_of_edge_type(edge_type, nuc, elec) ==
  CASE edge_type = "nn"   -> [mask_self |-> TRUE,  send_mask_val |-> nuc,  rec_mask_val |-> nuc]
    [] edge_type = "ne"   -> [mask_self |-> FALSE, send_mask_val |-> nuc,  rec_mask_val |-> elec]
    [] edge_type = "en"   -> [mask_self |-> FALSE, send_mask_val |-> elec, rec_mask_val |-> nuc]
    [] edge_type = "same" -> [mask_self |-> TRUE,  send_mask_val |-> elec, rec_mask_val |-> elec]
    [] edge_type = "anti" -> [mask_self |-> FALSE, send_mask_val |-> elec, rec_mask_val |-> elec]

\* self.builders of EdgeFactory.__init__
make_builders(types, kwargs_by_edge_type, nuc, elec) ==
  [t \in {types[i] : i \in 1..Len(types)} |->
     LET kw  == IF t \in DOMAIN kwargs_by_edge_type
                  THEN kwargs_by_edge_type[t] ELSE DEFAULT_EDGE_KWARGS
         fix == fix_kwargs_of_edge_type(t, nuc, elec)
     IN GraphEdgesBuilder(kw.cutoff, kw.occupancy_limit, fix.mask_self,
                          fix.send_mask_val, fix.rec_mask_val)]

\* jnp.concatenate(x, axis=-1) on the senders and on the receivers.
transpose_cat(list_of_edges) ==
  [dims      |-> list_of_edges[1].dims,
   senders   |-> AsSeq([e \in 1..Len(list_of_edges[1].senders) |->
                    list_of_edges[1].senders[e] \o list_of_edges[2].senders[e]]),
   receivers |-> AsSeq([e \in 1..Len(list_of_edges[1].receivers) |->
                    list_of_edges[1].receivers[e] \o list_of_edges[2].receivers[e]])]

\* rs[..., lo:hi, :] with 0-based bounds lo (inclusive) and hi (exclusive).
slice_particles(rs, lo, hi) ==
  [shape |-> BatchDims(rs.shape) \o <<hi - lo, 3>>,
   data  |-> AsSeq([e \in 1..Len(rs.data) |-> SubSeq(rs.data[e], lo + 1, hi)])]

\* jnp.broadcast_to(self.coords, (*batch_dims, *self.coords.shape))
broadcast_coords(xyz, batch_dims) ==
  [shape |-> batch_dims \o <<Len(xyz), 3>>,
   data  |-> AsSeq([e \in 1..Prod(batch_dims) |-> xyz])]

Args(t, pos1, pos2, send_offset, rec_offset) ==
  [edge_type |-> t, pos1 |-> pos1, pos2 |-> pos2,
   send_offset |-> send_offset, rec_offset |-> rec_offset]

build_same_nooffset(rs_up, rs_down, up) ==
  << Args("same", rs_up, rs_up, 0, 0), Args("same", rs_down, rs_down, 0, 0) >>

build_same(rs_up, rs_down, up) ==
  << Args("same", rs_up, rs_up, 0, 0), Args("same", rs_down, rs_down, up, up) >>

build_anti(rs_up, rs_down, up) ==
  << Args("anti", rs_up, rs_down, 0, up), Args("anti", rs_down, rs_up, up, 0) >>

\* The builder calls build_rules[edge_type]() makes, in order.
build_rules_on(edge_type, bcoords, rs, rs_up, rs_down, up) ==
  CASE edge_type = "nn"   -> << Args("nn", bcoords, bcoords, 0, 0) >>
    [] edge_type = "ne"   -> << Args("ne", bcoords, rs, 0, 0) >>
    [] edge_type = "en"   -> << Args("en", rs, bcoords, 0, 0) >>
    [] edge_type = "same" -> build_same(rs_up, rs_down, up)
    [] edge_type = "anti" -> build_anti(rs_up, rs_down, up)

build_rules(edge_type, xyz, rs, up) ==
  build_rules_on(edge_type, broadcast_coords(xyz, BatchDims(rs.shape)), rs,
                 slice_particles(rs, 0, up), slice_particles(rs, up, NPart(rs.shape)), up)

\* One logged builder call: the builder as the call found it, the arguments
\* and what the call did.
CallRecord(self, a) ==
  [edge_type |-> a.edge_type, self |-> self, pos1 |-> a.pos1, pos2 |-> a.pos2,
   send_offset |-> a.send_offset, rec_offset |-> a.rec_offset,
   ret |-> GraphEdgesBuilder_call(self, a.pos1, a.pos2, a.send_offset, a.rec_offset)]

\* Runs the builder calls of `plan` in order on the builders `bs`; an
\* exception ends the run. Returns the builders and the log of calls made.
RECURSIVE run_calls(_, _, _)
run_step(bs, plan, log, rec) ==
  IF rec.ret.status = "ok"
    THEN run_calls([bs EXCEPT ![rec.edge_type].occupancy_limit = rec.ret.occupancy_limit],
                   Tail(plan), Append(log, rec))
    ELSE [builders |-> bs, log |-> Append(log, rec)]

run_calls(bs, plan, log) ==
  IF plan = <<>> THEN [builders |-> bs, log |-> log]
  ELSE run_step(bs, plan, log, CallRecord(bs[Head(plan).edge_type], Head(plan)))

RECURSIVE factory_plan(_, _, _, _)
factory_plan(types, xyz, rs, up) ==
  IF types = <<>> THEN <<>>
  ELSE build_rules(Head(types), xyz, rs, up) \o factory_plan(Tail(types), xyz, rs, up)

\* edges[edge_type] of EdgeFactory.__call__, from the log of a run without
\* exception: one call's edges, or the two spin blocks concatenated.
edges_of_calls(mine) ==
  IF Len(mine) = 1 THEN mine[1].ret.edges
  ELSE transpose_cat(<<mine[1].ret.edges, mine[2].ret.edges>>)

edges_of_type(t, log) == edges_of_calls(SelectSeq(log, LAMBDA c : c.edge_type = t))

\* ------------------------------------------------------------------ state

VARIABLES
  edge_types,   \* EdgeFactory.edge_types
  n_nuc,        \* EdgeFactory.n_nuc
  n_up,         \* EdgeFactory.n_up
  n_down,       \* EdgeFactory.n_down
  coords,       \* EdgeFactory.coords
  builders,     \* EdgeFactory.builders: edge type -> GraphEdgesBuilder
  pc,           \* the caller: "idle", or holding what the last call gave
  calls,        \* the GraphEdgesBuilder calls the last operation made
  result        \* what the last operation gave its caller

vars == <<edge_types, n_nuc, n_up, n_down, coords, builders, pc, calls, result>>

NoResult == [status |-> "none", edges |-> <<>>]

\* EdgeFactory.__init__ for a molecule and a list of edge types.
Init ==
  /\ edge_types \in EdgeTypeLists
  /\ n_nuc = Len(MolCoords)
  /\ coords = MolCoords
  /\ \E sc \in SpinCounts : n_up = sc[1] /\ n_down = sc[2]
  /\ \E kwargs_by_edge_type \in
          { <<>>, [t \in {edge_types[i] : i \in 1..Len(edge_types)} |-> TightKwargs] } :
       builders = make_builders(edge_types, kwargs_by_edge_type, n_nuc, n_up + n_down)
  /\ pc = "idle"
  /\ calls = <<>>
  /\ result = NoResult

\* ----------------------------------------------------------------- inputs

\* Well-formed position arrays: batch prefix bd, n particles on Points. The
\* data of such an array is a member of ArrayData(bd, n).
ArrayData(bd, n) == [1..Prod(bd) -> [1..n -> Points]]

Array(bd, n, d) == [shape |-> bd \o <<n, 3>>, data |-> d]

\* An array of a given shape whose content no check reads.
Blank(shape) ==
  [shape |-> shape,
   data  |-> IF Len(shape) < 2 THEN <<>>
             ELSE [e \in 1..Prod(BatchDims(shape)) |->
                     [k \in 1..NPart(shape) |-> [x \in 1..Last(shape) |-> 0]]]]

\* (sender count, receiver count) of the direct builder calls whose
\* positions are enumerated, and of those with a side of zero particles.
DirectShapes == {<<1, 1>>}

\* Batch prefixes of those calls (EdgeFactory calls carry the larger batches).
DirectBatchShapes == {<<>>, <<0>>}

DegenerateShapes == {<<0, 0>>, <<0, 1>>, <<1, 0>>, <<0, 2>>, <<2, 0>>}

\* Shape pairs that break a shape contract (or come close to it).
MalformedShapes ==
  { << <<1, 2>>, <<1, 3>> >>,       \* trailing dimension of pos1
    << <<1, 3>>, <<1, 2>> >>,       \* trailing dimension of pos2
    << <<3>>, <<1, 3>> >>,          \* pos1 without a particle axis
    << <<1, 3>>, <<3>> >>,          \* pos2 without a particle axis
    << <<0, 3>>, <<3>> >>,
    << <<2, 1, 3>>, <<1, 1, 3>> >>, \* batch prefixes differ
    << <<2, 1, 3>>, <<1, 3>> >> }

\* The index block [offset, offset + n) of each side of a direct call lies
\* inside the index space whose size is the builder's mask value.
InIndexSpace(self, n_send, n_rec, send_offset, rec_offset) ==
  /\ n_send + send_offset <= self.send_mask_val
  /\ n_rec + rec_offset <= self.rec_mask_val

Offsets == 0..MaxOffset

\* ---------------------------------------------------------------- actions

\* A caller invokes builders[t](pos1, pos2, send_offset, rec_offset).
Built(rec) ==
  /\ builders' = [builders EXCEPT
                    ![rec.edge_type].occupancy_limit = rec.ret.occupancy_limit]
  /\ calls' = <<rec>>
  /\ result' = [status |-> rec.ret.status, edges |-> rec.ret.edges]
  /\ pc' = "built"
  /\ UNCHANGED <<edge_types, n_nuc, n_up, n_down, coords>>

DoBuild(a) == Built(CallRecord(builders[a.edge_type], a))

\* A direct call on well-formed position arrays.
Build ==
  /\ pc = "idle"
  /\ \E t \in DOMAIN builders, bd \in DirectBatchShapes, sh \in DirectShapes,
        so \in Offsets, ro \in Offsets :
       /\ InIndexSpace(builders[t], sh[1], sh[2], so, ro)
       /\ \E d1 \in ArrayData(bd, sh[1]), d2 \in ArrayData(bd, sh[2]) :
            DoBuild(Args(t, Array(bd, sh[1], d1), Array(bd, sh[2], d2), so, ro))

\* A direct call in which a side has zero particles.
BuildDegenerate ==
  /\ pc = "idle"
  /\ \E t \in DOMAIN builders, bd \in BatchShapes \cup {<<1, 2>>}, sh \in DegenerateShapes,
        so \in Offsets, ro \in Offsets :
       /\ InIndexSpace(builders[t], sh[1], sh[2], so, ro)
       /\ DoBuild(Args(t, Blank(bd \o <<sh[1], 3>>), Blank(bd \o <<sh[2], 3>>), so, ro))

\* A direct call on arrays of the shapes of MalformedShapes.
BuildMalformed ==
  /\ pc = "idle"
  /\ \E t \in DOMAIN builders, ms \in MalformedShapes, so \in Offsets, ro \in Offsets :
       DoBuild(Args(t, Blank(ms[1]), Blank(ms[2]), so, ro))

\* EdgeFactory.__call__(rs)
Made(run) ==
  /\ builders' = run.builders
  /\ calls' = run.log
  /\ result' =
       IF Last(run.log).ret.status = "ok"
         THEN [status |-> "ok",
               edges  |-> [t \in DOMAIN builders |-> edges_of_type(t, run.log)]]
         ELSE [status |-> Last(run.log).ret.status, edges |-> <<>>]

DoFactory(rs) ==
  /\ IF NPart(rs.shape) # n_up + n_down
       THEN /\ result' = [status |-> "AssertionError", edges |-> <<>>]
            /\ calls' = <<>>
            /\ UNCHANGED builders
       ELSE Made(run_calls(builders, factory_plan(edge_types, coords, rs, n_up), <<>>))
  /\ pc' = "made"
  /\ UNCHANGED <<edge_types, n_nuc, n_up, n_down, coords>>

Factory ==
  /\ pc = "idle"
  /\ \E bd \in BatchShapes :
       /\ Prod(bd) > 1 => <<n_up, n_down>> \in BatchedSpinCounts
       /\ \E d \in ArrayData(bd, n_up + n_down) :
            DoFactory(Array(bd, n_up + n_down, d))

\* rs with one electron too many.
FactoryMiscount ==
  /\ pc = "idle"
  /\ \E bd \in BatchShapes : DoFactory(Blank(bd \o <<n_up + n_down + 1, 3>>))

\* The caller is done with what the last call gave and is ready to call again.
Consume ==
  /\ pc # "idle"
  /\ pc' = "idle"
  /\ calls' = <<>>
  /\ result' = NoResult
  /\ UNCHANGED <<edge_types, n_nuc, n_up, n_down, coords, builders>>

Next == Build \/ BuildDegenerate \/ BuildMalformed \/ Factory \/ FactoryMiscount \/ Consume

Spec == Init /\ [][Next]_vars

\* ------------------------------------------------------------- properties
\* What the claims speak of, stated on the logged calls from the positions
\* alone, without the kernel.

\* Largest surplus of a pre-configured limit over the true edge count.
ExtraCapacity == 1

Count(pos) == IF Len(pos.shape) < 2 THEN 0 ELSE NPart(pos.shape)

SqDist(a, b) ==
  (a[1] - b[1]) * (a[1] - b[1]) + (a[2] - b[2]) * (a[2] - b[2]) + (a[3] - b[3]) * (a[3] - b[3])

\* Euclidean distance strictly below the cutoff (cutoff > 0).
Near(a, b, cutoff) == SqDist(a, b) < cutoff * cutoff

Returned(c) == c.ret.status = "ok"

\* The call reached the kernel: both sides have particles.
Populated(c) == Count(c.pos1) > 0 /\ Count(c.pos2) > 0

Elements(c) == 1..Len(c.ret.edges.senders)

\* All (sender, receiver) index pairs of batch element e, sender-major.
Candidates(c) ==
  [k \in 1..(Count(c.pos1) * Count(c.pos2)) |->
     <<(k - 1) \div Count(c.pos2), (k - 1) % Count(c.pos2)>>]

\* The pairs of element e that are edges: within the cutoff and, under
\* self-masking, between different particles; in candidate order.
TrueEdges(c, e) ==
  SelectSeq(Candidates(c),
            LAMBDA q : /\ Near(c.pos1.data[e][q[1] + 1], c.pos2.data[e][q[2] + 1],
                               c.self.cutoff)
                       /\ (c.self.mask_self => q[1] # q[2]))

Shifted(c, q) == <<q[1] + c.send_offset, q[2] + c.rec_offset>>

Sentinel(c) == <<c.self.send_mask_val, c.self.rec_mask_val>>

\* The slots of element e of an edge set, as (sender, receiver) pairs.
Slots(edges, e) ==
  [p \in 1..Len(edges.senders[e]) |-> <<edges.senders[e][p], edges.receivers[e][p]>>]

\* The slots left once the sentinel-filled ones are removed.
KeptSlots(c, edges, e) == SelectSeq(Slots(edges, e), LAMBDA q : q # Sentinel(c))

Occurrences(seq, v) == Cardinality({p \in 1..Len(seq) : seq[p] = v})

SeqRange(seq) == {seq[p] : p \in 1..Len(seq)}

SameUpToOrder(a, b) ==
  /\ Len(a) = Len(b)
  /\ \A v \in SeqRange(a) \cup SeqRange(b) : Occurrences(a, v) = Occurrences(b, v)

\* The largest true edge count over the batch of a call that reached the kernel.
TrueMax(c) == MaxOf([e \in 1..Len(c.pos1.data) |-> Len(TrueEdges(c, e))])

\* The call found more edges than the limit it started with.
Overflowed(c) ==
  /\ Returned(c) /\ Populated(c) /\ Len(c.pos1.data) > 0
  /\ TrueMax(c) > c.self.occupancy_limit

\* The same call on a builder configured with limit L from the start.
Preconfigured(c, L) ==
  GraphEdgesBuilder_call([c.self EXCEPT !.occupancy_limit = L],
                         c.pos1, c.pos2, c.send_offset, c.rec_offset)

AllCalls == {calls[i] : i \in 1..Len(calls)}

\* C1 as stated: an overflowing call returns the same edge set, up to the
\* order of the slots, as a builder configured with any sufficient limit.
C1_IdenticalToAnyPreconfigured ==
  \A c \in AllCalls :
    Overflowed(c) =>
      \A L \in TrueMax(c)..(TrueMax(c) + ExtraCapacity) :
        \A e \in Elements(c) :
          SameUpToOrder(Slots(c.ret.edges, e), Slots(Preconfigured(c, L).edges, e))

\* C1 amended: an overflowing call returns the same non-sentinel slots, in
\* the same order, as a builder configured with any limit that suffices, and
\* the same edge set slot for slot when that limit is exactly the largest
\* edge count of the batch.
C1_SameKeptAsPreconfigured ==
  \A c \in AllCalls :
    Overflowed(c) =>
      \A L \in TrueMax(c)..(TrueMax(c) + ExtraCapacity) :
        /\ Preconfigured(c, L).status = "ok"
        /\ Preconfigured(c, L).edges.dims = c.ret.edges.dims
        /\ \A e \in Elements(c) :
             KeptSlots(c, c.ret.edges, e) = KeptSlots(c, Preconfigured(c, L).edges, e)
        /\ (L = TrueMax(c) => Preconfigured(c, L).edges = c.ret.edges)

C1_Witness ==
  \E c \in AllCalls :
    /\ Overflowed(c)
    /\ Len(c.pos1.data) = 2
    /\ Len(TrueEdges(c, 1)) # Len(TrueEdges(c, 2))

\* C2: no step lowers the occupancy limit of any builder.
C2_LimitNeverDecreases ==
  [][\A t \in DOMAIN builders :
       builders'[t].occupancy_limit >= builders[t].occupancy_limit]_vars

\* A call that found fewer edges than the limit a former call had grown.
C2_Witness ==
  \E c \in AllCalls :
    /\ Returned(c) /\ Populated(c) /\ Len(c.pos1.data) > 0
    /\ c.self.occupancy_limit > DEFAULT_EDGE_KWARGS.occupancy_limit
    /\ TrueMax(c) < c.self.occupancy_limit
    /\ builders[c.edge_type].occupancy_limit >= c.self.occupancy_limit

\* C3: in every returned call, every true edge of every batch element sits
\* in exactly one non-sentinel slot of that element.
C3_EveryEdgeExactlyOnce ==
  \A c \in AllCalls :
    Returned(c) =>
      \A e \in Elements(c) :
        \A k \in 1..Len(TrueEdges(c, e)) :
          Occurrences(KeptSlots(c, c.ret.edges, e), Shifted(c, TrueEdges(c, e)[k])) = 1

C3_Witness ==
  \E c \in AllCalls :
    /\ Overflowed(c)
    /\ \E e \in Elements(c) : Len(TrueEdges(c, e)) > c.self.occupancy_limit + 1

\* C4: every non-sentinel slot of a returned call names a sender and a
\* receiver of the call whose distance is strictly below the cutoff.
C4_KeptWithinCutoff ==
  \A c \in AllCalls :
    Returned(c) =>
      \A e \in Elements(c) :
        \A q \in SeqRange(KeptSlots(c, c.ret.edges, e)) :
          /\ q[1] - c.send_offset \in 0..(Count(c.pos1) - 1)
          /\ q[2] - c.rec_offset \in 0..(Count(c.pos2) - 1)
          /\ Near(c.pos1.data[e][q[1] - c.send_offset + 1],
                  c.pos2.data[e][q[2] - c.rec_offset + 1], c.self.cutoff)

\* A returned call with a pair exactly at the cutoff, a pair inside it and a
\* pair beyond it.
C4_Witness ==
  \E c \in AllCalls :
    /\ Returned(c) /\ Populated(c)
    /\ \E e \in Elements(c) :
         /\ Len(TrueEdges(c, e)) > 0
         /\ \E q \in SeqRange(Candidates(c)) :
              SqDist(c.pos1.data[e][q[1] + 1], c.pos2.data[e][q[2] + 1])
                = c.self.cutoff * c.self.cutoff
         /\ \E q \in SeqRange(Candidates(c)) :
              SqDist(c.pos1.data[e][q[1] + 1], c.pos2.data[e][q[2] + 1])
                > c.self.cutoff * c.self.cutoff

\* C5: a returned call of a self-masking builder, its two sides offset
\* alike, has no non-sentinel slot whose sender equals its receiver.
C5_NoSelfEdges ==
  \A c \in AllCalls :
    (Returned(c) /\ c.self.mask_self /\ c.send_offset = c.rec_offset) =>
      \A e \in Elements(c) :
        \A q \in SeqRange(KeptSlots(c, c.ret.edges, e)) : q[1] # q[2]

\* A self-masking call with a non-zero offset in which two different
\* particles sit on the same point and are joined by an edge.
C5_Witness ==
  \E c \in AllCalls :
    /\ Returned(c) /\ c.self.mask_self /\ Populated(c)
    /\ c.send_offset > 0 /\ c.send_offset = c.rec_offset
    /\ \E e \in Elements(c) :
         \E q \in SeqRange(TrueEdges(c, e)) :
           c.pos1.data[e][q[1] + 1] = c.pos2.data[e][q[2] + 1]

\* Both arguments are position sets: arrays with a particle axis and a
\* coordinate axis behind the batch prefix. The claims speak of such calls.
PositionSets(c) == Len(c.pos1.shape) >= 2 /\ Len(c.pos2.shape) >= 2

\* The shape contracts of a build call on position sets: both trailing
\* dimensions 3, equal batch prefixes and, under self-masking, equal particle
\* counts.
MeetsContracts(c) ==
  /\ PositionSets(c)
  /\ Last(c.pos1.shape) = 3 /\ Last(c.pos2.shape) = 3
  /\ BatchDims(c.pos1.shape) = BatchDims(c.pos2.shape)
  /\ (c.self.mask_self => Count(c.pos1) = Count(c.pos2))

AllSentinel(c, edges, e) == \A q \in SeqRange(Slots(edges, e)) : q = Sentinel(c)

\* C6: a call that meets the shape contracts and has a side of zero
\* particles returns, for every batch element, as many slots as the limit of
\* its builder, each holding the two mask values whatever the offsets, and
\* never runs the kernel.
C6_DegenerateAllSentinel ==
  \A c \in AllCalls :
    (MeetsContracts(c) /\ ~Populated(c)) =>
      /\ Returned(c)
      /\ c.ret.runs = 0
      /\ c.ret.occupancy_limit = c.self.occupancy_limit
      /\ c.ret.edges.dims = BatchDims(c.pos1.shape)
      /\ Len(c.ret.edges.senders) = Prod(BatchDims(c.pos1.shape))
      /\ Len(c.ret.edges.receivers) = Prod(BatchDims(c.pos1.shape))
      /\ \A e \in Elements(c) :
           /\ Len(c.ret.edges.senders[e]) = c.self.occupancy_limit
           /\ Len(c.ret.edges.receivers[e]) = c.self.occupancy_limit
           /\ AllSentinel(c, c.ret.edges, e)

\* A zero-particle call with both offsets non-zero on a batch of two, on a
\* builder whose mask values differ.
C6_Witness ==
  \E c \in AllCalls :
    /\ MeetsContracts(c) /\ ~Populated(c)
    /\ c.send_offset > 0 /\ c.rec_offset > 0
    /\ Len(c.ret.edges.senders) = 2
    /\ c.self.send_mask_val # c.self.rec_mask_val

\* The two builder calls of a spin edge type in the last EdgeFactory call.
SpinCalls(t) == SelectSeq(calls, LAMBDA c : c.edge_type = t)

InBlock(x, lo, hi) == x >= lo /\ x < hi

\* Whether slot q of the k-th call of spin edge type t lies in the spin
\* blocks that call joins: up is [0, n_up), down is [n_up, n_up + n_down).
InSpinBlocks(t, k, q) ==
  LET up(x)   == InBlock(x, 0, n_up)
      down(x) == InBlock(x, n_up, n_up + n_down)
  IN CASE t = "same" /\ k = 1 -> up(q[1]) /\ up(q[2])
       [] t = "same" /\ k = 2 -> down(q[1]) /\ down(q[2])
       [] t = "anti" /\ k = 1 -> up(q[1]) /\ down(q[2])
       [] t = "anti" /\ k = 2 -> down(q[1]) /\ up(q[2])

\* C7: in what an EdgeFactory call returns for a spin edge type, every batch
\* element has as many slots as the two builder calls' limits add up to (each
\* limit taken as its call left it), the first call's slots come first, and
\* every non-sentinel index lies in the spin block of its side.
C7_SpinConcatenation ==
  (pc = "made" /\ result.status = "ok") =>
    \A t \in DOMAIN builders \cap {"same", "anti"} :
      /\ Len(SpinCalls(t)) = 2
      /\ \A e \in 1..Len(result.edges[t].senders) :
           /\ Len(result.edges[t].senders[e])
                = SpinCalls(t)[1].ret.occupancy_limit + SpinCalls(t)[2].ret.occupancy_limit
           /\ Len(result.edges[t].receivers[e]) = Len(result.edges[t].senders[e])
           /\ \A p \in 1..Len(result.edges[t].senders[e]) :
                LET q == Slots(result.edges[t], e)[p]
                    k == IF p <= SpinCalls(t)[1].ret.occupancy_limit THEN 1 ELSE 2
                IN q # Sentinel(SpinCalls(t)[1]) => InSpinBlocks(t, k, q)

\* An EdgeFactory call whose second same-spin call grows the limit, with an
\* edge in the spin-down block and a spin-up block that is not empty.
C7_Witness ==
  /\ pc = "made" /\ result.status = "ok" /\ "same" \in DOMAIN builders
  /\ n_up > 0
  /\ SpinCalls("same")[2].ret.occupancy_limit > SpinCalls("same")[1].ret.occupancy_limit
  /\ \E e \in 1..Len(result.edges["same"].senders) :
       \E q \in SeqRange(Slots(result.edges["same"], e)) : q # Sentinel(SpinCalls("same")[1])

\* C8: a call on position sets that breaks a shape contract raises before
\* the kernel runs, returns nothing and leaves the limit; every call that
\* meets the contracts returns.
C8_RaisesOnlyOnViolation ==
  \A c \in AllCalls :
    /\ (PositionSets(c) /\ ~MeetsContracts(c)) =>
         /\ ~Returned(c)
         /\ c.ret.runs = 0
         /\ c.ret.edges = NoEdges
         /\ c.ret.occupancy_limit = c.self.occupancy_limit
    /\ MeetsContracts(c) => Returned(c)

\* The slots a returned call must hold for element e: the true edges in
\* candidate order with the offsets added, then sentinels up to the limit.
Packed(c, e) ==
  [p \in 1..c.ret.occupancy_limit |->
     IF Populated(c) /\ p <= Len(TrueEdges(c, e))
       THEN Shifted(c, TrueEdges(c, e)[p])
       ELSE Sentinel(c)]

C10_GrowthStep ==
  \A c \in AllCalls :
    (Returned(c) /\ Populated(c)) =>
      /\ c.ret.occupancy = [e \in 1..Len(c.pos1.data) |-> Len(TrueEdges(c, e))]
      /\ IF TrueMax(c) > c.self.occupancy_limit
           THEN /\ c.ret.runs = 2
                /\ c.ret.occupancy_limit = TrueMax(c)
                /\ \A e \in Elements(c) :
                     /\ Len(TrueEdges(c, e)) <= c.ret.occupancy_limit
                     /\ Len(c.ret.edges.senders[e]) = c.ret.occupancy_limit
           ELSE /\ c.ret.runs = 1
                /\ c.ret.occupancy_limit = c.self.occupancy_limit

\* A batch whose second element holds the most edges, more than the limit;
\* and, in the same EdgeFactory call, a call that exactly fills the limit.
C10_Witness ==
  /\ \E c \in AllCalls :
       /\ Overflowed(c) /\ Len(c.pos1.data) = 2
       /\ Len(TrueEdges(c, 2)) > Len(TrueEdges(c, 1))
       /\ Len(TrueEdges(c, 1)) > 0
  /\ \E c \in AllCalls :
       /\ Returned(c) /\ Populated(c) /\ c.ret.runs = 1
       /\ TrueMax(c) = c.self.occupancy_limit

====
